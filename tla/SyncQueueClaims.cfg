SPECIFICATION Spec
CONSTANTS
  Replicas = {r1, r2}
  Peers = {"p1"}
  Artifacts = {"a1"}
  Tasks <- MCTasks
  Pushes <- MCPushes
  PeerOf <- MCPeerOf
  ArtifactOf <- MCArtifactOf
  Filtered = {}
  Windowed = {"p1"}
  Tokens = {k1, k2}
  NoToken = NoToken
  Limit = 1
  MaxRetries = 1
  RetryBound = 1
  MaxHandlers = 1
  MaxFaults = 1
SYMMETRY MCSymmetry
INVARIANTS TypeOK ClaimIntegrity
PROPERTIES FencedFinalizers RetryCountsFailures ClaimsWithinLimit ImplementsClaimQueue
