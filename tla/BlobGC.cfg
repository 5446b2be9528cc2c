SPECIFICATION FairSpec
CONSTANTS
  hub = hub
  lab = lab
  image = image
  idx = idx
  b1 = b1
  t1 = t1
  t2 = t2
  pushA = pushA
  pushB = pushB
  untag = untag
  delete = delete
  pushIdx = pushIdx
  Null = Null
  Repos = {hub}
  Blobs = {b1}
  Manifests = {image, idx}
  Tags = {t1, t2}
  Clients = {pushA, pushB, untag, delete, pushIdx}
  Collectors = {g1, g2}
  LocationOf <- MCLocationOf
  BlobsOf <- MCBlobsOf
  ChildrenOf <- MCChildrenOf
  JobOf <- MCJobOf
  MaxFaults = 1
INVARIANT TypeOK
PROPERTIES GraceSparesTagged OrphansReclaimed
CHECK_DEADLOCK FALSE
