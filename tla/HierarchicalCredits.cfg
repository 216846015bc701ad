SPECIFICATION MCSpec
CONSTANTS
  c1 = c1
  c2 = c2
  b1 = b1
  b2 = b2
  s1 = s1
  s2 = s2
  k1 = k1
  d1 = d1
  d2 = d2
  NoClient = NoClient
  NoId = NoId
  Undeclared = Undeclared
  MaxCommits = 2
  MaxRounds = 2
  EnforceMonotone = FALSE
  Clients <- MCClients
  Nodes <- MCNodes
  Edges <- MCEdges
  Rank <- MCRank
  ProposalIds <- MCProposalIds
  Payloads <- MCPayloads
  Strict <- MCStrict
  Domains <- MCDomains
  Writes <- MCWrites
  Participants <- MCDomains
  Frozen <- MCFrozen
  InitialVersions <- MCInitialVersions
  Verdicts <- MCVerdicts
  Consistency <- MCConsistency
  MaxModelLag <- MCMaxModelLag
  MaxNodeLag <- MCMaxNodeLag
  Mergeable <- MCMergeable
INVARIANTS
  CreditsNameInputs
CHECK_DEADLOCK FALSE
