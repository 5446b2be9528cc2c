SPECIFICATION Spec
CONSTANTS
  post = post
  mono = mono
  patch = patch
  put = put
  put2 = put2
  cancel = cancel
  a = a
  b = b
  Null = Null
  Other = Other
  Requests = {post, patch, put2, mono}
  Chunks = {a, b}
  KindOf <- MCKindOf
  BodyOf <- MCBodyOf
  Digests <- MCDigests
  DigestOf <- MCDigestOf
  Reapers = {r1}
  MaxFaults = 1
INVARIANT CommittedBlobPresent
CHECK_DEADLOCK FALSE
