--------------------- MODULE MCTransactionalCoordinator ---------------------
(***************************************************************************)
(* TLC instance of TransactionalCoordinator.  Callers hand over packets    *)
(* computed from a version vector they read at some time: the one the      *)
(* attributes show now (torn, if a publication is half done), or one an    *)
(* earlier commit started from.                                            *)
(***************************************************************************)
EXTENDS TransactionalCoordinator, TLC

CONSTANTS
  MaxCommits   \* bound: calls that take a commit id

CONSTANTS c1, c2, p1, p2, p3, p4

MCClients == {c1, c2}
MCStrict == {"left", "right"}
MCFrozen == {}

MCNodes == {"left", "right", "root", "unsaved"}
MCEdges == {<<"left", "root">>, <<"right", "root">>}
MCRank == ("left" :> 0) @@ ("right" :> 1) @@ ("root" :> 2) @@ ("unsaved" :> 3)
MCDomains == {"parameters", "optimizer", "buffer"}
MCParticipants == {"parameters", "optimizer"}
MCWrites == ("left" :> {"parameters"}) @@ ("right" :> {"parameters", "optimizer"})
            @@ ("root" :> {"optimizer"}) @@ ("unsaved" :> {"buffer"})
MCInitialVersions == [model |-> 2, nodes |-> [n \in MCNodes |-> 0]]
MCProposalIds == {p1, p2, p3, p4}
MCPayloads == {"delta"}
MCVerdicts ==
  {[accepted |-> TRUE, lowerBound |-> "none", overall |-> o, evidence |-> e] :
     o \in {"ok", "loss"}, e \in UNION {[S -> {"ok"}] : S \in SUBSET {p1, p2}}}
  \cup {[accepted |-> a, lowerBound |-> b, overall |-> "ok", evidence |-> p1 :> o] :
          a \in BOOLEAN, b \in {"ok", "loss"}, o \in {"ok", "loss"}}

(* What each proposal id stands for: its node, what it invalidates besides *)
(* its closure, and the nodes whose versions it declares.                  *)
NodeOf == (p1 :> "left") @@ (p2 :> "right") @@ (p3 :> "root") @@ (p4 :> "unsaved")
ExplicitlyInvalidates == (p1 :> {}) @@ (p2 :> {}) @@ (p3 :> {"right"}) @@ (p4 :> {})
DependsOn == (p1 :> {"left"}) @@ (p2 :> {"right", "left"}) @@ (p3 :> MCNodes) @@ (p4 :> {"unsaved"})

ReadableVectors == {Versions} \cup {receipts[i].before : i \in DOMAIN receipts}

Packet(i, v) ==
  [id |-> i, node |-> NodeOf[i], base |-> v.model,
   deps |-> [n \in MCNodes |-> IF n \in DependsOn[i] THEN v.nodes[n] ELSE Undeclared],
   invalidates |-> ExplicitlyInvalidates[i], wellFormed |-> TRUE, payload |-> "delta"]

(* Alone, independent siblings together, parent and child together, and    *)
(* one without a participant.                                              *)
IdSets == {{p1}, {p3}, {p4}, {p1, p2}, {p2, p3}}

OfferedBatches == {{Packet(i, v) : i \in I} : I \in IdSets, v \in ReadableVectors}

CommitIds == 0..MaxCommits

MCCall(c) ==
  /\ Cardinality(commitIds) + Cardinality({d \in Clients : phase[d] # "idle"}) < MaxCommits
  /\ \E batch \in OfferedBatches, id \in {0, NoId} : Call(c, batch, id)

MCNext == \E c \in Clients : MCCall(c) \/ Step(c, CommitIds)

(* A thread that is inside commit() keeps running, and so do the callbacks *)
(* it calls.  Nothing is assumed about callers starting a commit.          *)
MCSpec == Init /\ [][MCNext]_vars /\ \A c \in Clients : WF_vars(Step(c, CommitIds))

=============================================================================
