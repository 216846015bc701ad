------------------------ MODULE MCHierarchicalRounds ------------------------
(***************************************************************************)
(* TLC instance of HierarchicalRounds: one node of each consistency, two   *)
(* proposals for the bounded one, two for the strict one that report the   *)
(* same data, and one for the corrected one.  A proposal is computed at    *)
(* the versions an earlier commit left or those that can be read now.      *)
(***************************************************************************)
EXTENDS HierarchicalRounds, TLC

CONSTANTS
  MaxCommits,  \* bound: calls that take a commit id
  MaxRounds    \* bound: recorded and running rounds

CONSTANTS c1, c2, b1, b2, s1, s2, k1, d1, d2

MCClients == {c1, c2}
MCNodes == {"bounded", "strict", "corrected"}
MCEdges == {<<"strict", "corrected">>}
MCRank == ("bounded" :> 0) @@ ("strict" :> 1) @@ ("corrected" :> 2)
MCDomains == {"parameters"}
MCWrites == [n \in MCNodes |-> MCDomains]
MCConsistency == [n \in MCNodes |-> n]
MCMaxModelLag == [n \in MCNodes |-> 2]
MCMaxNodeLag == ("bounded" :> 1) @@ ("strict" :> 1) @@ ("corrected" :> 0)
MCMergeable == {"bounded", "strict"}
MCStrict == {}
MCFrozen == {}
MCInitialVersions == [model |-> 0, nodes |-> [n \in MCNodes |-> 0]]
MCVerdicts == {[accepted |-> TRUE, lowerBound |-> "none", overall |-> "none", evidence |-> << >>]}

InputIds == {b1, b2, s1, s2, k1}
SingleIds == InputIds \cup ({"rebased"} \X InputIds \X (0..MaxCommits))
MCProposalIds == SingleIds \cup ({"merged"} \X SUBSET SingleIds)

MCVector == [model : Nat, nodes : [MCNodes -> Nat]]
MCPayloads == SUBSET Contribution(InputIds, {d1, d2})

NodeOf == (b1 :> "bounded") @@ (b2 :> "bounded") @@ (s1 :> "strict") @@ (s2 :> "strict")
          @@ (k1 :> "corrected")
DataOfInput == (b1 :> d1) @@ (b2 :> d2) @@ (s1 :> d1) @@ (s2 :> d1) @@ (k1 :> d1)

Packet(i, v) ==
  LET n == NodeOf[i]
  IN [id |-> i, node |-> n, base |-> v.model,
      deps |-> [m \in MCNodes |-> IF m = n THEN v.nodes[m] ELSE Undeclared],
      invalidates |-> {}, wellFormed |-> TRUE,
      payload |-> {[origin |-> i, data |-> DataOfInput[i], base |-> v.model,
                    nodeBase |-> v.nodes[n], discount |-> 0, semantics |-> "current",
                    correctedFor |-> {}]}]

(* The same packet, when it does not say which node versions it used.      *)
Undated(q) == [q EXCEPT !.deps = [m \in MCNodes |-> Undeclared]]

Vectors == {Versions} \cup {receipts[i].before : i \in DOMAIN receipts}

RowSets ==
  {{Packet(i, v), Packet(j, w)} :
     <<i, j>> \in {<<b1, b2>>, <<s1, s2>>, <<b1, k1>>}, v \in Vectors, w \in Vectors}
  \cup {{Packet(s1, v), Undated(Packet(b1, v))} : v \in Vectors}

Active == {c \in Clients : phase[c] # "idle" \/ roundPhase[c] # "idle"}
Room ==
  /\ Cardinality(commitIds) + Cardinality(Active) < MaxCommits
  /\ Len(rounds) + Cardinality(Active) < MaxRounds

CommitIds == 0..MaxCommits

MCNext ==
  \E c \in Clients :
    \/ Room /\ \E rows \in RowSets : StartRound(c, rows)
    \/ Room /\ \E i \in {b1, s1}, v \in Vectors : DirectCall(c, {Packet(i, v)}, NoId)
    \/ RoundStep(c, CommitIds)

(* A thread inside submit() or commit() keeps running, and so do the       *)
(* callbacks.  Nothing is assumed about threads starting a round.          *)
MCSpec == RoundInit /\ [][MCNext]_allVars /\ \A c \in Clients : WF_allVars(RoundStep(c, CommitIds))

=============================================================================
