--------------------------- MODULE WorkerPoolProofs ---------------------------
(***************************************************************************)
(* Proofs about WorkerPool, for any number of workers and requests.  As    *)
(* long as no worker answers with an error, every answer is exact, however *)
(* many workers die or are late, and the pool implements ShardedStep: the  *)
(* invariant is that no reply outlives its request.  (With errors this is  *)
(* false, as the run of StaleReplies.cfg shows.)                           *)
(***************************************************************************)
EXTENDS WorkerPool, TLAPS

Request == Len(requests)

Quiet(i) == inbox[i] = <<>> /\ outbox[i] = <<>>

Answer == [request : Nat, fold : [Workers -> Workers \X Nat]]

PoolTypeOK ==
  /\ inbox \in [Workers -> Seq(Nat)]
  /\ outbox \in [Workers -> Seq([ok : BOOLEAN, request : Nat])]
  /\ pc \in {"idle", "collect"}
  /\ requests \in Seq(Kinds)
  /\ got \in Seq(Workers \X Nat)
  /\ Len(got) <= NumWorkers
  /\ errors = 0
  /\ answers \in Seq(Answer)

(* Of a worker that is still to be collected from, either the command or   *)
(* its reply is under way, or it is dead.                                  *)
Owed(i) ==
  \/ inbox[i] = <<Request>> /\ outbox[i] = <<>>
  \/ inbox[i] = <<>> /\ outbox[i] = <<Reply(TRUE, Request)>>
  \/ Quiet(i)

(* No command and no reply outlives its request.                           *)
NothingOutlives ==
  /\ pc = "idle" => got = <<>> /\ \A i \in Workers : Quiet(i)
  /\ pc = "collect" =>
       \A i \in Workers : IF i <= Len(got) THEN Quiet(i) /\ got[i] = <<i, Request>> ELSE Owed(i)

PInv == PoolTypeOK /\ NothingOutlives /\ AnswersAreExact

-----------------------------------------------------------------------------
(* The invariant holds initially.                                          *)
LEMMA PoolInit == NumWorkers \in Nat /\ Init => PInv
BY DEF Init, PInv, PoolTypeOK, NothingOutlives, AnswersAreExact, Empty, Quiet, Workers

(* Sequences of one element.                                               *)
LEMMA Single ==
  ASSUME NEW S, NEW x \in S
  PROVE  /\ <<x>> \in Seq(S) /\ <<>> \in Seq(S)
         /\ Append(<<>>, x) = <<x>> /\ Head(<<x>>) = x /\ Tail(<<x>>) = <<>>
         /\ <<x>> # <<>>
OBVIOUS

(* A worker serves a command or crashes.                                   *)
LEMMA ServeKeeps ==
  ASSUME NumWorkers \in Nat, MaxErrors = 0, PInv, NEW i \in Workers, Serve(i)
  PROVE  PInv'
<1> USE DEF PInv
<1>1. /\ UNCHANGED <<pc, got, requests, answers, errors>>
      /\ inbox[i] # <<>>
      /\ inbox' = [inbox EXCEPT ![i] = Tail(inbox[i])]
      /\ outbox' = [outbox EXCEPT ![i] = Append(outbox[i], Reply(TRUE, Head(inbox[i])))]
  <2>1. ~(errors < MaxErrors)
    BY DEF PoolTypeOK
  <2> QED
    BY <2>1 DEF Serve
<1>2. pc = "collect" /\ ~(i <= Len(got)) /\ inbox[i] = <<Request>> /\ outbox[i] = <<>>
  <2>1. pc = "collect"
    BY <1>1 DEF NothingOutlives, Quiet, PoolTypeOK
  <2>2. ~(i <= Len(got)) /\ Owed(i)
    BY <1>1, <2>1 DEF NothingOutlives, Quiet
  <2> QED
    BY <1>1, <2>1, <2>2 DEF Owed, Quiet
<1>3. /\ Request \in Nat /\ Request' = Request
      /\ Reply(TRUE, Request) \in [ok : BOOLEAN, request : Nat]
  BY <1>1 DEF PoolTypeOK, Request, Reply
<1>4. inbox'[i] = <<>> /\ outbox'[i] = <<Reply(TRUE, Request)>>
  <2>1. Head(inbox[i]) = Request /\ Tail(inbox[i]) = <<>>
    BY <1>2, <1>3, Single
  <2>2. Append(outbox[i], Reply(TRUE, Request)) = <<Reply(TRUE, Request)>>
    BY <1>2, <1>3, Single
  <2>3. inbox'[i] = Tail(inbox[i]) /\ outbox'[i] = Append(outbox[i], Reply(TRUE, Head(inbox[i])))
    BY <1>1 DEF PoolTypeOK
  <2> QED
    BY <2>1, <2>2, <2>3
<1>5. \A j \in Workers \ {i} : inbox'[j] = inbox[j] /\ outbox'[j] = outbox[j]
  BY <1>1 DEF PoolTypeOK
<1>6. <<>> \in Seq(Nat) /\ <<Reply(TRUE, Request)>> \in Seq([ok : BOOLEAN, request : Nat])
  BY <1>3, Single
<1>7. PoolTypeOK'
  <2>1. inbox' \in [Workers -> Seq(Nat)]
    BY <1>1, <1>4, <1>6 DEF PoolTypeOK
  <2>2. outbox' \in [Workers -> Seq([ok : BOOLEAN, request : Nat])]
    BY <1>1, <1>4, <1>6 DEF PoolTypeOK
  <2> QED
    BY <1>1, <2>1, <2>2 DEF PoolTypeOK
<1>8. NothingOutlives'
  BY <1>1, <1>2, <1>3, <1>4, <1>5 DEF NothingOutlives, Quiet, Owed, PoolTypeOK, Workers
<1>9. AnswersAreExact'
  BY <1>1 DEF AnswersAreExact
<1> QED
  BY <1>7, <1>8, <1>9

LEMMA CrashKeeps ==
  ASSUME NumWorkers \in Nat, PInv, NEW i \in Workers, Crash(i)
  PROVE  PInv'
<1> USE DEF PInv
<1>1. /\ UNCHANGED <<outbox, pc, got, requests, answers, errors>>
      /\ inbox' = [inbox EXCEPT ![i] = <<>>]
  BY DEF Crash
<1>2. Request' = Request
  BY <1>1 DEF Request
<1>3. PoolTypeOK'
  BY <1>1 DEF PoolTypeOK
<1>4. \A j \in Workers : inbox'[j] = IF j = i THEN <<>> ELSE inbox[j]
  BY <1>1 DEF PoolTypeOK
<1>5. NothingOutlives'
  BY <1>1, <1>2, <1>4 DEF NothingOutlives, Quiet, Owed
<1>6. AnswersAreExact'
  BY <1>1 DEF AnswersAreExact
<1> QED
  BY <1>3, <1>5, <1>6

(* The pool is terminated: nothing is under way any more.                  *)
LEMMA TerminateKeeps ==
  ASSUME NumWorkers \in Nat, PInv, Terminate, pc' = "idle", got' = <<>>,
         requests' \in Seq(Kinds), UNCHANGED <<answers, errors>>
  PROVE  PInv'
<1> USE DEF PInv
<1>1. PoolTypeOK'
  BY DEF PoolTypeOK, Terminate, Empty
<1>2. NothingOutlives'
  BY DEF NothingOutlives, Terminate, Empty, Quiet
<1>3. AnswersAreExact'
  BY DEF AnswersAreExact
<1> QED
  BY <1>1, <1>2, <1>3

(* A request is broadcast to a quiet pool, refused, or breaks the pool.    *)
LEMMA RequestKeeps ==
  ASSUME NumWorkers \in Nat, PInv, NEW kind \in Kinds,
         Broadcast(kind) \/ Refuse(kind) \/ SendBreaks(kind)
  PROVE  PInv'
<1> USE DEF PInv
<1>1. NewRequest(kind)
  BY DEF Broadcast, Refuse, SendBreaks
<1>2. /\ pc = "idle" /\ requests' = Append(requests, kind) /\ UNCHANGED <<got, answers, errors>>
      /\ got = <<>> /\ \A i \in Workers : Quiet(i)
  BY <1>1 DEF NewRequest, NothingOutlives
<1>3. requests' \in Seq(Kinds) /\ Len(requests') \in Nat
  BY <1>2 DEF PoolTypeOK
<1>4. AnswersAreExact'
  BY <1>2 DEF AnswersAreExact
<1>5. CASE Broadcast(kind)
  <2>1. /\ inbox' = [i \in Workers |-> Append(inbox[i], Len(requests'))]
        /\ outbox' = outbox /\ pc' = "collect"
    BY <1>5 DEF Broadcast
  <2>2. \A i \in Workers : inbox'[i] = <<Len(requests')>> /\ outbox'[i] = <<>>
    BY <1>2, <1>3, <2>1, Single DEF Quiet
  <2>3. inbox' \in [Workers -> Seq(Nat)]
    BY <1>3, <2>1, <2>2, Single
  <2>4. PoolTypeOK'
    BY <1>2, <1>3, <2>1, <2>3 DEF PoolTypeOK
  <2>5. \A i \in Workers : ~(i <= Len(got')) /\ Owed(i)'
    <3>1. Len(got') = 0
      BY <1>2
    <3>2. \A i \in Workers : ~(i <= Len(got'))
      BY <3>1 DEF Workers
    <3>3. \A i \in Workers : Owed(i)'
      BY <2>2 DEF Owed, Request
    <3> QED
      BY <3>2, <3>3
  <2>6. NothingOutlives'
    BY <2>1, <2>5 DEF NothingOutlives
  <2> QED
    BY <1>4, <2>4, <2>6
<1>6. CASE Refuse(kind)
  <2>1. UNCHANGED <<inbox, outbox, pc>>
    BY <1>6 DEF Refuse, workers
  <2>2. PoolTypeOK'
    BY <1>2, <1>3, <2>1 DEF PoolTypeOK
  <2>3. NothingOutlives'
    BY <1>2, <2>1 DEF NothingOutlives, Quiet
  <2> QED
    BY <1>4, <2>2, <2>3
<1>7. CASE SendBreaks(kind)
  BY <1>2, <1>3, <1>7, TerminateKeeps DEF SendBreaks
<1> QED
  BY <1>5, <1>6, <1>7

(* Payloads are collected in the order of the workers.                     *)
LEMMA CollectKeeps ==
  ASSUME NumWorkers \in Nat, PInv, Collect
  PROVE  PInv'
<1> USE DEF PInv
<1> DEFINE n == Len(got) + 1
<1>1. /\ pc = "collect" /\ n \in Workers /\ outbox[n] # <<>>
      /\ got' = Append(got, <<n, Head(outbox[n]).request>>)
      /\ outbox' = [outbox EXCEPT ![n] = Tail(@)]
      /\ UNCHANGED <<inbox, pc, requests, answers, errors>>
  BY DEF Collect, Current
<1>2. Request' = Request /\ Request \in Nat /\ Len(got) \in Nat
  BY <1>1 DEF PoolTypeOK, Request
<1>3. inbox[n] = <<>> /\ outbox[n] = <<Reply(TRUE, Request)>>
  BY <1>1, <1>2 DEF NothingOutlives, Owed, Quiet
<1>4. got' = Append(got, <<n, Request>>) /\ <<n, Request>> \in Workers \X Nat
  BY <1>1, <1>2, <1>3 DEF Reply
<1>5. /\ got' \in Seq(Workers \X Nat) /\ Len(got') = n /\ got'[n] = <<n, Request>>
      /\ \A i \in 1..Len(got) : got'[i] = got[i]
  BY <1>1, <1>4 DEF PoolTypeOK
<1>6. \A j \in Workers : outbox'[j] = IF j = n THEN <<>> ELSE outbox[j]
  BY <1>1, <1>3 DEF PoolTypeOK
<1>7. <<>> \in Seq([ok : BOOLEAN, request : Nat])
  OBVIOUS
<1>8. outbox' \in [Workers -> Seq([ok : BOOLEAN, request : Nat])]
  BY <1>1, <1>3, <1>7 DEF PoolTypeOK
<1>9. PoolTypeOK'
  BY <1>1, <1>5, <1>8 DEF PoolTypeOK, Workers
<1>10. ASSUME NEW i \in Workers
       PROVE  IF i <= Len(got') THEN Quiet(i)' /\ got'[i] = <<i, Request'>> ELSE Owed(i)'
  <2>1. CASE i = n
    BY <1>1, <1>2, <1>3, <1>5, <1>6, <2>1 DEF Quiet
  <2>2. CASE i < n
    <3> HIDE DEF n
    <3>0. i \in Nat /\ i >= 1 /\ n = Len(got) + 1 /\ Len(got') = n
      BY <1>5 DEF Workers, n
    <3>1. i <= Len(got) /\ i <= Len(got') /\ i # n /\ i \in 1..Len(got)
      BY <1>2, <2>2, <3>0
    <3>2. Quiet(i) /\ got[i] = <<i, Request>>
      BY <1>1, <3>1 DEF NothingOutlives
    <3> QED
      BY <1>1, <1>2, <1>5, <1>6, <3>1, <3>2 DEF Quiet
  <2>3. CASE i > n
    <3>1. ~(i <= Len(got)) /\ ~(i <= Len(got')) /\ i # n
      BY <1>2, <1>5, <2>3 DEF Workers
    <3>2. Owed(i)
      BY <1>1, <3>1 DEF NothingOutlives
    <3> QED
      BY <1>1, <1>2, <1>6, <3>1, <3>2 DEF Owed, Quiet
  <2> QED
    BY <1>2, <2>1, <2>2, <2>3 DEF Workers
<1>11. NothingOutlives'
  BY <1>1, <1>10 DEF NothingOutlives
<1>12. AnswersAreExact'
  BY <1>1 DEF AnswersAreExact
<1> QED
  BY <1>9, <1>11, <1>12

(* No worker answers with an error.                                        *)
LEMMA NoErrorReply == NumWorkers \in Nat /\ PInv => ~CollectError
<1> SUFFICES ASSUME NumWorkers \in Nat, PInv, CollectError PROVE FALSE
  OBVIOUS
<1>1. pc = "collect" /\ Current \in Workers /\ ~(Current <= Len(got)) /\ outbox[Current] # <<>>
  BY DEF CollectError, Current, PInv, PoolTypeOK
<1>2. outbox[Current] = <<Reply(TRUE, Request)>>
  BY <1>1 DEF PInv, NothingOutlives, Owed, Quiet
<1>3. Head(outbox[Current]) = Reply(TRUE, Request)
  BY <1>2, Single
<1> QED
  BY <1>3 DEF CollectError, Reply

(* What is folded at the end of a request is exact.                        *)
LEMMA FoldIsExact ==
  ASSUME NumWorkers \in Nat, PInv, Fold
  PROVE  [request |-> Request, fold |-> [i \in Workers |-> got[i]]] = Step!ExactFold(Request)
<1>1. \A i \in Workers : i <= Len(got)
  BY DEF PInv, PoolTypeOK, Fold, Current, Workers
<1>2. \A i \in Workers : got[i] = <<i, Request>>
  BY <1>1 DEF PInv, NothingOutlives, Fold
<1> QED
  BY <1>2 DEF Step!ExactFold, Workers

LEMMA FoldKeeps ==
  ASSUME NumWorkers \in Nat, PInv, Fold
  PROVE  PInv'
<1> USE DEF PInv
<1>1. /\ pc = "collect" /\ pc' = "idle" /\ got' = <<>> /\ Current \notin Workers
      /\ UNCHANGED <<inbox, outbox, requests, errors>>
  BY DEF Fold, workers
<1>2. answers' \in Seq(Answer) => PoolTypeOK'
  BY <1>1 DEF PoolTypeOK
<1>3. \A i \in Workers : Quiet(i)
  BY <1>1 DEF NothingOutlives, PoolTypeOK, Current, Workers
<1>4. NothingOutlives'
  BY <1>1, <1>3 DEF NothingOutlives, Quiet
<1>5. answers' = answers \/ answers' = Append(answers, Step!ExactFold(Request))
  BY FoldIsExact DEF Fold, Request
<1>6. Request \in Nat
  BY DEF PoolTypeOK, Request
<1>7. Step!ExactFold(Request) \in Answer
  BY <1>6 DEF Step!ExactFold, Answer, Workers
<1>8. answers' \in Seq(Answer)
  <2>1. answers \in Seq(Answer)
    BY DEF PoolTypeOK
  <2>2. ASSUME NEW a \in Answer PROVE Append(answers, a) \in Seq(Answer)
    BY <2>1
  <2> QED
    BY <1>5, <1>7, <2>1, <2>2
<1>9. Step!ExactFold(Request) = Step!ExactFold(Step!ExactFold(Request).request)
  BY DEF Step!ExactFold
<1>10. AnswersAreExact'
  <2>1. CASE answers' = answers
    BY <2>1 DEF AnswersAreExact
  <2>2. CASE answers' = Append(answers, Step!ExactFold(Request))
    <3> DEFINE exact == Step!ExactFold(Request)
    <3> HIDE DEF exact
    <3>1. answers' = Append(answers, exact) /\ exact = Step!ExactFold(exact.request)
      BY <2>2, <1>9 DEF exact
    <3>2. \A n \in DOMAIN answers' :
              \/ n \in DOMAIN answers /\ answers'[n] = answers[n]
              \/ answers'[n] = exact
      BY <3>1 DEF PoolTypeOK
    <3> QED
      BY <3>1, <3>2 DEF AnswersAreExact
  <2> QED
    BY <1>5, <2>1, <2>2
<1> QED
  BY <1>2, <1>4, <1>8, <1>10

-----------------------------------------------------------------------------
(* Every step keeps the invariant when no worker answers with an error.    *)
LEMMA PoolStep ==
  NumWorkers \in Nat /\ MaxErrors = 0 /\ PInv /\ [Next]_vars => PInv'
<1> SUFFICES ASSUME NumWorkers \in Nat, MaxErrors = 0, PInv, [Next]_vars PROVE PInv'
  OBVIOUS
<1>1. CASE UNCHANGED vars
  BY <1>1 DEF vars, workers, PInv, PoolTypeOK, NothingOutlives, Quiet, Owed, Request,
              AnswersAreExact
<1>2. CASE \E kind \in Kinds : Broadcast(kind) \/ Refuse(kind) \/ SendBreaks(kind)
  BY <1>2, RequestKeeps
<1>3. CASE \E i \in Workers : Serve(i) \/ Crash(i)
  BY <1>3, ServeKeeps, CrashKeeps
<1>4. CASE LoseWorker
  <2>1. Terminate /\ pc' = "idle" /\ got' = <<>> /\ UNCHANGED <<requests, answers, errors>>
    BY <1>4 DEF LoseWorker, Raise
  <2>2. requests' \in Seq(Kinds)
    BY <2>1 DEF PInv, PoolTypeOK
  <2> QED
    BY <2>1, <2>2, TerminateKeeps
<1>5. CASE Close
  <2>1. /\ Terminate /\ pc = "idle" /\ UNCHANGED <<pc, got, requests, answers, errors>>
    BY <1>5 DEF Close
  <2>2. requests' \in Seq(Kinds) /\ got' = <<>> /\ pc' = "idle"
    BY <2>1 DEF PInv, PoolTypeOK, NothingOutlives
  <2> QED
    BY <2>1, <2>2, TerminateKeeps
<1>6. CASE Collect \/ CollectError \/ Fold
  BY <1>6, CollectKeeps, NoErrorReply, FoldKeeps
<1> QED
  BY <1>1, <1>2, <1>3, <1>4, <1>5, <1>6 DEF Next

(* Without error replies every answer folds one payload per worker, each   *)
(* computed for the model of its request, whoever dies or is late.         *)
THEOREM AnswersExact ==
  ASSUME NumWorkers \in Nat, MaxErrors = 0
  PROVE  Spec => []AnswersAreExact
<1>1. PInv /\ [Next]_vars => PInv'
  BY PoolStep
<1>2. Init => PInv
  BY PoolInit
<1>3. PInv => AnswersAreExact
  BY DEF PInv
<1> QED
  BY <1>1, <1>2, <1>3, PTL DEF Spec

-----------------------------------------------------------------------------
(* Each step of the pool is one of the abstract step, or a stutter.        *)
LEMMA StepMaps ==
  ASSUME NumWorkers \in Nat, MaxErrors = 0, PInv, [Next]_vars
  PROVE  [Step!Ask \/ Step!Answer \/ Step!Raise \/ Step!Refuse]_(Step!stepVars)
<1> USE DEF Step!stepVars
<1>1. ASSUME NEW kind \in Kinds, NewRequest(kind)
      PROVE  pc = "idle" /\ Len(requests') = Len(requests) + 1 /\ answers' = answers
  BY <1>1 DEF NewRequest, PInv, PoolTypeOK
<1>2. ASSUME NEW kind \in Kinds, Broadcast(kind)
      PROVE  Step!Ask
  BY <1>1, <1>2 DEF Broadcast, Step!Ask
<1>3. ASSUME NEW kind \in Kinds, Refuse(kind) \/ SendBreaks(kind)
      PROVE  Step!Refuse
  BY <1>1, <1>3 DEF Refuse, SendBreaks, Step!Refuse
<1>4. CASE Fold
  <2>1. pc # "idle" /\ pc' = "idle" /\ requests' = requests
    BY <1>4 DEF Fold
  <2>2. answers' = answers \/ answers' = Append(answers, Step!ExactFold(Request))
    BY <1>4, FoldIsExact DEF Fold, Request
  <2> QED
    BY <2>1, <2>2 DEF Step!Answer, Step!Raise, Request
<1>5. CASE LoseWorker
  BY <1>5 DEF LoseWorker, Raise, Step!Raise
<1>6. CASE Collect \/ Close \/ UNCHANGED vars \/ (\E i \in Workers : Serve(i) \/ Crash(i))
  BY <1>6 DEF Collect, Close, vars, Serve, Crash
<1>7. ~CollectError
  BY NoErrorReply
<1> QED
  BY <1>2, <1>3, <1>4, <1>5, <1>6, <1>7 DEF Next

(* Without error replies the pool implements ShardedStep.                  *)
THEOREM PoolImplementsStep ==
  ASSUME NumWorkers \in Nat, MaxErrors = 0
  PROVE  Spec => Step!Spec
<1>1. Init => PInv /\ Step!Init
  BY PoolInit DEF Init, Step!Init
<1>2. PInv /\ [Next]_vars => PInv'
  BY PoolStep
<1>3. PInv /\ [Next]_vars
        => [Step!Ask \/ Step!Answer \/ Step!Raise \/ Step!Refuse]_(Step!stepVars)
  BY StepMaps
<1> QED
  BY <1>1, <1>2, <1>3, PTL DEF Spec, Step!Spec

-----------------------------------------------------------------------------
(* A handle that lost its workers answers nothing more and stays closed,   *)
(* with or without error replies.                                          *)
THEOREM ClosedForGood == Spec => ClosedIsFinal
<1> DEFINE Inv == pc = "collect" => open
<1>1. Init => Inv
  BY DEF Init
<1>2. Inv /\ [Next]_vars => Inv'
  BY DEF Next, vars, workers, Broadcast, Refuse, SendBreaks, NewRequest, Collect, CollectError,
         LoseWorker, Fold, Close, Serve, Crash, Terminate, Raise
<1>3. ASSUME Inv, Next, ~open
      PROVE  ~open' /\ answers' = answers
  <2>1. pc # "collect"
    BY <1>3
  <2>2. ASSUME NEW kind \in Kinds, Refuse(kind) PROVE ~open' /\ answers' = answers
    BY <1>3, <2>2, Zenon DEF Refuse, NewRequest, workers
  <2>3. ASSUME NEW i \in Workers, Serve(i) \/ Crash(i) PROVE ~open' /\ answers' = answers
    <3>1. open' = open /\ answers' = answers
      BY <2>3 DEF Serve, Crash
    <3> QED
      BY <1>3, <3>1, Zenon
  <2>4. ASSUME NEW kind \in Kinds PROVE ~Broadcast(kind) /\ ~SendBreaks(kind)
    BY <1>3 DEF Broadcast, SendBreaks
  <2>5. ~Collect /\ ~CollectError /\ ~LoseWorker /\ ~Fold /\ ~Close
    BY <1>3, <2>1 DEF Collect, CollectError, LoseWorker, Fold, Close
  <2> QED
    BY <1>3, <2>2, <2>3, <2>4, <2>5 DEF Next
<1>4. Inv /\ [Next]_vars => [~open => ~open' /\ answers' = answers]_vars
  BY <1>3
<1> QED
  BY <1>1, <1>2, <1>4, PTL DEF Spec, ClosedIsFinal

=============================================================================
