SPECIFICATION FairSpec
CONSTANTS
  a1 = a1
  a2 = a2
  b1 = b1
  b2 = b2
  b3 = b3
  locking = locking
  plain = plain
  Null = Null
  Replicas = {locking, plain}
  Requests = {a1, a2, b1}
  ReplicaOf <- MCReplicaOf
  Advisory = {locking}
  Size = 2
  KnownLength = TRUE
  Depth = 1
  Budget = 1
  MaxFaults = 1
INVARIANTS TypeOK ServedWhole FollowerSharesBody KeyNotPoisoned
PROPERTIES Answered LockFreed
CHECK_DEADLOCK FALSE
