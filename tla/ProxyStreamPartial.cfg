SPECIFICATION Spec
CONSTANTS
  a1 = a1
  a2 = a2
  b1 = b1
  b2 = b2
  b3 = b3
  locking = locking
  plain = plain
  Null = Null
  Replicas = {plain}
  Requests = {b1, b2}
  ReplicaOf <- MCReplicaOf
  Advisory = {}
  Size = 2
  KnownLength = TRUE
  Depth = 1
  Budget = 1
  MaxFaults = 1
INVARIANT NeverPartial
CHECK_DEADLOCK FALSE
