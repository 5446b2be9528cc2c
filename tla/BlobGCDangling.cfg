SPECIFICATION Spec
CONSTANTS
  hub = hub
  lab = lab
  image = image
  idx = idx
  b1 = b1
  t1 = t1
  t2 = t2
  pushA = pushA
  pushB = pushB
  untag = untag
  delete = delete
  pushIdx = pushIdx
  Null = Null
  Repos = {hub, lab}
  Blobs = {b1}
  Manifests = {image}
  Tags = {t1}
  Clients = {pushA, pushB, untag}
  Collectors = {g1}
  LocationOf <- MCLocationOf
  BlobsOf <- MCBlobsOf
  ChildrenOf <- MCChildrenOf
  JobOf <- MCSharedJobOf
  MaxFaults = 0
INVARIANT TaggedImageComplete
CHECK_DEADLOCK FALSE
