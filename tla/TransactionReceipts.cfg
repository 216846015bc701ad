SPECIFICATION MCSpec
CONSTANTS
  c1 = c1
  c2 = c2
  p1 = p1
  p2 = p2
  p3 = p3
  p4 = p4
  NoClient = NoClient
  NoId = NoId
  Undeclared = Undeclared
  MaxCommits = 2
  EnforceMonotone = TRUE
  Clients <- MCClients
  Nodes <- MCNodes
  Edges <- MCEdges
  Rank <- MCRank
  ProposalIds <- MCProposalIds
  Payloads <- MCPayloads
  Strict <- MCStrict
  Domains <- MCDomains
  Writes <- MCWrites
  Participants <- MCParticipants
  Frozen <- MCFrozen
  InitialVersions <- MCInitialVersions
  Verdicts <- MCVerdicts
PROPERTIES
  AlwaysReceipted
CHECK_DEADLOCK FALSE
