SPECIFICATION FairSpec
CONSTANTS
  Replicas = {r1}
  Peers = {"p1"}
  Artifacts = {"a1", "a2"}
  Tasks <- MCTwoPushes
  Pushes <- MCTwoPushes
  PeerOf <- MCTwoPeerOf
  ArtifactOf <- MCTwoArtifactOf
  Filtered = {"push2"}
  Windowed = {}
  Tokens = {k1, k2}
  NoToken = NoToken
  Limit = 3
  MaxRetries = 2
  RetryBound = 0
  MaxHandlers = 0
  MaxFaults = 2
PROPERTY EventuallySettled
